---- MODULE Spec2Model ----
\* The promisified wrappers KafkaConsumer and Producer of index.js over the
\* native bindings.  The wrapper classes hold a single field, impl (the native
\* handle); everything else in the state below is either a promise created by
\* the wrapper, or what the native engine has been handed by the wrapper.
EXTENDS Integers, Sequences, FiniteSets, TLC

\* ---------------------------------------------------------------- bounds
\* promise-returning calls (consume, produce) made in one run
MaxOps == 2
\* synchronous calls (subscribe, commit, close) made in one run
MaxCalls == 2
\* duplicate invocations of completion callbacks by the engine in one run
MaxDuplicates == 1
\* TopicPartition objects created in one run
MaxRefs == 2

\* ---------------------------------------------------------------- inputs
\* First argument of a completion callback: "null" is falsy (no error), the
\* other two are error codes, a retryable one and a connection-fatal one.
Errors == {"null", "ERR__QUEUE_FULL", "ERR__FATAL"}

\* Connection-fatal error codes.
FatalErrors == {"ERR__FATAL"}

\* The engine errors that a caller may retry after (no message available,
\* rebalance in progress, queue full): every error code that is not fatal.
TransientErrors == (Errors \ {"null", "undefined", "0"}) \ FatalErrors

\* Second argument of a completion callback: a message / an offset.
Values == {"42"}

\* The arguments of a completion callback in full: every falsy first argument
\* an engine uses to report success (null, undefined, the success code 0) next
\* to an error code, and a second argument that may be undefined.
CallbackErrors == {"null", "undefined", "0", "ERR__QUEUE_FULL"}

CallbackValues == {"undefined", "42"}

\* Errors the engine raises synchronously from a call.
EngineThrows == {"ERR__INVALID_ARG"}

\* Topics and partitions a TopicPartition is created for.
TopicNames == {"orders", "t1"}

Partitions == {0, 3}

\* What the engine writes into a TopicPartition on commit: an offset and an
\* error code ("0" is success).
EngineWrites == [offset : {"7", "8"}, err : {"0", "ERR__STATE"}]

\* Topic lists handed to subscribe: empty, plain, with a duplicate.
TopicLists == {<<>>, <<"t1">>, <<"t2">>, <<"t1", "t1">>}

\* ---------------------------------------------------------------- state
VARIABLES
    promises,       \* the promises created by consume()/produce(), by call
    cb,             \* per call: does the engine hold its callback, first report, throw
    engineCalls,    \* how often each method of impl has been invoked
    subscription,   \* engine side: the topic list of the last subscribe
    client,         \* the instance constructed: "consumer" or "producer"
    closeState,     \* position of its close(): open / blocked / stuck / closed
    pendingAtClose, \* calls whose promise was pending when close() was invoked
    atFatal,        \* calls pending on a facade when a fatal error was reported
    nCalls,         \* synchronous calls made so far
    nDup,           \* duplicate callback invocations so far
    lastCall,       \* the last synchronous call and how it ended
    engineSync,     \* does this engine invoke callbacks inside the request itself
    engineLog,      \* engine side: subscription steps of the last subscribe/commit request
    sendQueue,      \* engine side: the produce calls in the order it got them
    tps,            \* the TopicPartition objects the application holds
    created,        \* per TopicPartition: the topic and partition it was created with
    engineWrote     \* per TopicPartition: what the engine wrote in the last commit

vars == <<promises, cb, engineCalls, subscription, client, closeState,
          pendingAtClose, atFatal, nCalls, nDup, lastCall, engineSync, engineLog,
          sendQueue, tps, created, engineWrote>>

\* The TopicPartition objects and what is recorded about them.
refVars == <<tps, created, engineWrote>>

Ids == 1..Len(promises)

\* Variant: a test against null only (error !== null), which takes undefined
\* and the success code 0 for errors.
Truthy_nullOnly(x) == x # "null"

\* `if (error)`: JavaScript truthiness of the error argument.
Truthy(x) == x \notin {"null", "undefined", "0"}

HasDuplicate(topics) ==
    \E i, j \in 1..Len(topics) : i # j /\ topics[i] = topics[j]

\* new P((resolve, reject) => ...): a promise starts pending.
NewPromise(kind) == [kind |-> kind, st |-> "pending", val |-> "none"]

\* Variant: an executor whose exception is swallowed: the promise is returned
\* and stays pending.
ThrownPromise_swallowed(kind, e) == NewPromise(kind)

\* A promise whose executor threw: it is rejected with the thrown error.
ThrownPromise(kind, e) == [kind |-> kind, st |-> "rejected", val |-> e]

\* Variant: a resolve that overwrites a promise that is already settled.
resolve_unguarded(p, v) == [p EXCEPT !.st = "resolved", !.val = v]

\* resolve()/reject() of a promise settle it only while it is pending.
resolve(p, v) ==
    IF p.st = "pending" THEN [p EXCEPT !.st = "resolved", !.val = v] ELSE p

reject(p, e) ==
    IF p.st = "pending" THEN [p EXCEPT !.st = "rejected", !.val = e] ELSE p

\* Variant: a callback that, on a fatal error, also fails every other promise
\* still pending (a teardown of all pending operations).
ConsumeCallback_teardownOnFatal(ps, id, error, value) ==
    IF error \in FatalErrors
    THEN [i \in DOMAIN ps |-> reject(ps[i], IF i = id THEN error ELSE "ClientClosed")]
    ELSE IF Truthy(error)
         THEN [ps EXCEPT ![id] = reject(@, error)]
         ELSE [ps EXCEPT ![id] = resolve(@, value)]

\* The callback consume() hands to impl.consume, closed over the resolve and
\* reject of the promise of call id.
ConsumeCallback(ps, id, error, value) ==
    IF Truthy(error)
    THEN [ps EXCEPT ![id] = reject(@, error)]
    ELSE [ps EXCEPT ![id] = resolve(@, value)]

\* Variant: a callback that never looks at its error argument.
ProduceCallback_ignoreError(ps, id, error, offset) ==
    [ps EXCEPT ![id] = resolve(@, offset)]

\* Variant: resolve and reject kept in one slot of the producer, overwritten by
\* every produce call, so that a report settles the promise of the latest call.
ProduceCallback_sharedSlot(ps, id, error, offset) ==
    IF Truthy(error)
    THEN [ps EXCEPT ![Len(ps)] = reject(@, error)]
    ELSE [ps EXCEPT ![Len(ps)] = resolve(@, offset)]

\* The callback produce() hands to impl.produce.
ProduceCallback(ps, id, error, offset) ==
    IF Truthy(error)
    THEN [ps EXCEPT ![id] = reject(@, error)]
    ELSE [ps EXCEPT ![id] = resolve(@, offset)]

\* What the engine does on subscribe(topics) while prior is subscribed: any
\* previous subscription is unassigned and unsubscribed first, then the new
\* list is requested from the group.
EngineSubscribe(prior, topics) ==
    IF prior = <<>>
    THEN <<[ev |-> "subscribe", topics |-> topics]>>
    ELSE <<[ev |-> "unsubscribe", topics |-> prior], [ev |-> "subscribe", topics |-> topics]>>

\* new TopicPartition(topic, partition): offset unset, no error.
NewTopicPartition(topic, partition) ==
    [topic |-> topic, partition |-> partition, offset |-> "unset", err |-> "0"]

\* The engine writes offset and error of a TopicPartition; topic and partition
\* are read-only.
EngineCommit(ref, w) == [ref EXCEPT !.offset = w.offset, !.err = w.err]

\* The ways the engine can write into n TopicPartition objects.
AllWrites(n) == IF n = 0 THEN {<<>>} ELSE [1..n -> EngineWrites]

\* close() is synchronous and blocks the event loop: while one is running no
\* other JavaScript (call or callback) runs.
EventLoopFree == closeState \notin {"blocked", "stuck"}

NoReport == [held |-> FALSE, error |-> "none", value |-> "none", threw |-> "none"]

Pending(kind) == {i \in Ids : promises[i].kind = kind /\ promises[i].st = "pending"}

Init ==
    /\ promises = <<>>
    /\ cb = <<>>
    /\ engineCalls = [subscribe |-> 0, consume |-> 0, commit |-> 0,
                      produce |-> 0, close |-> 0]
    /\ subscription = <<>>
    /\ client \in {"consumer", "producer"}
    /\ closeState = "open"
    /\ pendingAtClose = {}
    /\ atFatal = {}
    /\ nCalls = 0
    /\ nDup = 0
    /\ lastCall = [op |-> "none", arg |-> <<>>, result |-> "none", err |-> "none", engine |-> "none"]
    /\ engineSync \in BOOLEAN
    /\ engineLog = <<>>
    /\ sendQueue = <<>>
    /\ tps = <<>>
    /\ created = <<>>
    /\ engineWrote = <<>>

\* ---------------------------------------------------------------- KafkaConsumer
\* Variant: a subscribe that validates the topic list before the engine sees it.
KafkaConsumer_subscribe_validated ==
    /\ client = "consumer"
    /\ EventLoopFree
    /\ nCalls < MaxCalls
    /\ \E topics \in TopicLists :
         IF topics = <<>> \/ HasDuplicate(topics)
         THEN /\ lastCall' = [op |-> "subscribe", arg |-> topics, result |-> "threw",
                              err |-> "InvalidArgument", engine |-> "none"]
              /\ UNCHANGED <<engineCalls, subscription>>
         ELSE /\ engineCalls' = [engineCalls EXCEPT !.subscribe = @ + 1]
              /\ subscription' = topics
              /\ lastCall' = [op |-> "subscribe", arg |-> topics, result |-> "returned",
                              err |-> "none", engine |-> "returned"]
    /\ engineLog' = engineLog
    /\ nCalls' = nCalls + 1
    /\ UNCHANGED <<engineSync, sendQueue, refVars, nDup, promises, cb, client, closeState, pendingAtClose, atFatal>>

\* Variant: a subscribe that keeps the topics of earlier calls and hands the
\* engine the accumulated list.
KafkaConsumer_subscribe_accumulating ==
    /\ client = "consumer"
    /\ EventLoopFree
    /\ nCalls < MaxCalls
    /\ \E topics \in TopicLists :
        /\ engineCalls' = [engineCalls EXCEPT !.subscribe = @ + 1]
        /\ subscription' = subscription \o topics
        /\ engineLog' = EngineSubscribe(subscription, subscription \o topics)
        /\ lastCall' = [op |-> "subscribe", arg |-> topics, result |-> "returned", err |-> "none", engine |-> "returned"]
    /\ nCalls' = nCalls + 1
    /\ UNCHANGED <<engineSync, sendQueue, refVars, nDup, promises, cb, client, closeState, pendingAtClose, atFatal>>

\* subscribe(topics) { return this.impl.subscribe(topics); }: one call of the
\* engine's subscribe with the caller's list, which returns or throws.
KafkaConsumer_subscribe ==
    /\ client = "consumer"
    /\ EventLoopFree
    /\ nCalls < MaxCalls
    /\ \E topics \in TopicLists :
        /\ engineCalls' = [engineCalls EXCEPT !.subscribe = @ + 1]
        /\ \/ /\ subscription' = topics
              /\ engineLog' = EngineSubscribe(subscription, topics)
              /\ lastCall' = [op |-> "subscribe", arg |-> topics, result |-> "returned", err |-> "none", engine |-> "returned"]
           \/ \E e \in EngineThrows :
              /\ subscription' = subscription
              /\ engineLog' = <<>>
              /\ lastCall' = [op |-> "subscribe", arg |-> topics, result |-> "threw", err |-> e, engine |-> e]
    /\ nCalls' = nCalls + 1
    /\ UNCHANGED <<engineSync, sendQueue, refVars, nDup, promises, cb, client, closeState, pendingAtClose, atFatal>>

\* Variant: a single-flight consume, which refuses a call while another one is
\* pending and does not hand it to the engine.
KafkaConsumer_consume_singleFlight ==
    /\ client = "consumer"
    /\ EventLoopFree
    /\ Len(promises) < MaxOps
    /\ IF Pending("consume") # {}
       THEN /\ promises' = Append(promises, ThrownPromise("consume", "OperationInProgress"))
            /\ cb' = Append(cb, NoReport)
            /\ engineCalls' = engineCalls
       ELSE /\ promises' = Append(promises, NewPromise("consume"))
            /\ cb' = Append(cb, [NoReport EXCEPT !.held = TRUE])
            /\ engineCalls' = [engineCalls EXCEPT !.consume = @ + 1]
    /\ UNCHANGED <<engineSync, engineLog, sendQueue, refVars, nDup, subscription, client, closeState, pendingAtClose,
                   atFatal, nCalls, lastCall>>

\* Variant: a consume that asks the engine first and creates the promise
\* afterwards: a callback invoked inside the request finds nothing to settle.
KafkaConsumer_consume_registerAfter ==
    /\ client = "consumer"
    /\ EventLoopFree
    /\ Len(promises) < MaxOps
    /\ engineCalls' = [engineCalls EXCEPT !.consume = @ + 1]
    /\ \/ /\ ~engineSync
          /\ promises' = Append(promises, NewPromise("consume"))
          /\ cb' = Append(cb, [NoReport EXCEPT !.held = TRUE])
          /\ atFatal' = atFatal
       \/ \E e \in EngineThrows :
          /\ promises' = Append(promises, ThrownPromise("consume", e))
          /\ cb' = Append(cb, [NoReport EXCEPT !.threw = e])
          /\ atFatal' = atFatal
       \/ \E error \in Errors, value \in Values :
          /\ engineSync
          /\ promises' = Append(promises, NewPromise("consume"))
          /\ cb' = Append(cb, [NoReport EXCEPT !.held = TRUE, !.error = error, !.value = value])
          /\ atFatal' = IF error \in FatalErrors
                        THEN atFatal \cup Pending("consume")
                        ELSE atFatal
    /\ UNCHANGED <<engineSync, engineLog, sendQueue, refVars, nDup, subscription, client, closeState,
                   pendingAtClose, nCalls, lastCall>>

\* Variant: a consumer that an engine error halts: once a consume has been
\* rejected, a further consume is refused and never reaches the engine.
KafkaConsumer_consume_haltedAfterError ==
    /\ client = "consumer"
    /\ EventLoopFree
    /\ Len(promises) < MaxOps
    /\ IF \E id \in Ids : promises[id].st = "rejected"
       THEN /\ promises' = Append(promises, ThrownPromise("consume", "ConsumerHalted"))
            /\ cb' = Append(cb, NoReport)
            /\ engineCalls' = engineCalls
            /\ atFatal' = atFatal
       ELSE /\ engineCalls' = [engineCalls EXCEPT !.consume = @ + 1]
            /\ \/ /\ ~engineSync
                  /\ promises' = Append(promises, NewPromise("consume"))
                  /\ cb' = Append(cb, [NoReport EXCEPT !.held = TRUE])
                  /\ atFatal' = atFatal
               \/ \E e \in EngineThrows :
                  /\ promises' = Append(promises, ThrownPromise("consume", e))
                  /\ cb' = Append(cb, [NoReport EXCEPT !.threw = e])
                  /\ atFatal' = atFatal
               \/ \E error \in Errors, value \in Values :
                  /\ engineSync
                  /\ promises' = ConsumeCallback(Append(promises, NewPromise("consume")),
                                                Len(promises) + 1, error, value)
                  /\ cb' = Append(cb, [NoReport EXCEPT !.held = TRUE, !.error = error, !.value = value])
                  /\ atFatal' = IF error \in FatalErrors
                                THEN atFatal \cup Pending("consume")
                                ELSE atFatal
    /\ UNCHANGED <<engineSync, engineLog, sendQueue, refVars, nDup, subscription, client, closeState,
                   pendingAtClose, nCalls, lastCall>>

\* consume() { return new P((resolve, reject) => { this.impl.consume(cb) }) }:
\* the engine keeps the callback for later, or throws, or invokes the callback
\* inside the request.
KafkaConsumer_consume ==
    /\ client = "consumer"
    /\ EventLoopFree
    /\ Len(promises) < MaxOps
    /\ engineCalls' = [engineCalls EXCEPT !.consume = @ + 1]
    /\ \/ /\ ~engineSync
          /\ promises' = Append(promises, NewPromise("consume"))
          /\ cb' = Append(cb, [NoReport EXCEPT !.held = TRUE])
          /\ atFatal' = atFatal
       \/ \E e \in EngineThrows :
          /\ promises' = Append(promises, ThrownPromise("consume", e))
          /\ cb' = Append(cb, [NoReport EXCEPT !.threw = e])
          /\ atFatal' = atFatal
       \/ \E error \in Errors, value \in Values :
          /\ engineSync
          /\ promises' = ConsumeCallback(Append(promises, NewPromise("consume")),
                                        Len(promises) + 1, error, value)
          /\ cb' = Append(cb, [NoReport EXCEPT !.held = TRUE, !.error = error, !.value = value])
          /\ atFatal' = IF error \in FatalErrors
                        THEN atFatal \cup Pending("consume")
                        ELSE atFatal
    /\ UNCHANGED <<engineSync, engineLog, sendQueue, refVars, nDup, subscription, client, closeState,
                   pendingAtClose, nCalls, lastCall>>

\* The engine invokes the callback of consume call id with (error, value).
consume_callback(id, error, value) ==
    /\ EventLoopFree
    /\ id \in Ids
    /\ promises[id].kind = "consume"
    /\ cb[id].held
    /\ promises' = ConsumeCallback(promises, id, error, value)
    /\ IF cb[id].error = "none"
       THEN /\ cb' = [cb EXCEPT ![id].error = error, ![id].value = value]
            /\ nDup' = nDup
       ELSE /\ nDup < MaxDuplicates
            /\ cb' = cb
            /\ nDup' = nDup + 1
    /\ atFatal' = IF error \in FatalErrors /\ promises[id].st = "pending"
                  THEN atFatal \cup (Pending("consume") \ {id})
                  ELSE atFatal
    /\ UNCHANGED <<engineSync, engineLog, sendQueue, refVars, engineCalls, subscription, client, closeState,
                   pendingAtClose, nCalls, lastCall>>

\* Variant: a commit that checks for an earlier subscribe before the engine
\* sees the request.
KafkaConsumer_commit_stateChecked ==
    /\ client = "consumer"
    /\ EventLoopFree
    /\ nCalls < MaxCalls
    /\ IF engineCalls.subscribe = 0
       THEN /\ engineCalls' = engineCalls
            /\ lastCall' = [op |-> "commit", arg |-> <<>>, result |-> "threw",
                            err |-> "IllegalState", engine |-> "none"]
       ELSE /\ engineCalls' = [engineCalls EXCEPT !.commit = @ + 1]
            /\ lastCall' = [op |-> "commit", arg |-> <<>>, result |-> "returned",
                            err |-> "none", engine |-> "returned"]
    /\ nCalls' = nCalls + 1
    /\ engineLog' = <<>>
    /\ UNCHANGED <<engineSync, sendQueue, refVars, nDup, promises, cb, subscription, client, closeState,
                   pendingAtClose, atFatal>>

\* Variant: a commit that hands the engine copies of the caller's objects, so
\* that what the engine writes never shows in them.
KafkaConsumer_commit_copies ==
    /\ client = "consumer"
    /\ EventLoopFree
    /\ nCalls < MaxCalls
    /\ engineCalls' = [engineCalls EXCEPT !.commit = @ + 1]
    /\ \E w \in AllWrites(Len(tps)) :
        /\ engineWrote' = w
        /\ tps' = tps
    /\ \/ lastCall' = [op |-> "commit", arg |-> <<>>, result |-> "returned", err |-> "none", engine |-> "returned"]
       \/ \E e \in EngineThrows :
            lastCall' = [op |-> "commit", arg |-> <<>>, result |-> "threw", err |-> e, engine |-> e]
    /\ nCalls' = nCalls + 1
    /\ engineLog' = <<>>
    /\ UNCHANGED <<engineSync, sendQueue, created, nDup, promises, cb, subscription, client,
                   closeState, pendingAtClose, atFatal>>

\* Variant: a commit that waits for the engine's confirmation, leaving a pending
\* operation of its own behind.
KafkaConsumer_commit_awaited ==
    /\ client = "consumer"
    /\ EventLoopFree
    /\ nCalls < MaxCalls
    /\ engineCalls' = [engineCalls EXCEPT !.commit = @ + 1]
    /\ \E w \in AllWrites(Len(tps)) :
        /\ engineWrote' = w
        /\ tps' = [i \in 1..Len(tps) |-> EngineCommit(tps[i], w[i])]
    /\ promises' = Append(promises, NewPromise("commit"))
    /\ cb' = Append(cb, [NoReport EXCEPT !.held = TRUE])
    /\ lastCall' = [op |-> "commit", arg |-> <<>>, result |-> "returned", err |-> "none", engine |-> "returned"]
    /\ nCalls' = nCalls + 1
    /\ engineLog' = <<>>
    /\ UNCHANGED <<engineSync, sendQueue, created, nDup, subscription, client,
                   closeState, pendingAtClose, atFatal>>

\* commit(commitValues) { this.impl.commit(commitValues); }: the engine gets the
\* caller's own TopicPartition objects and writes into them.
KafkaConsumer_commit ==
    /\ client = "consumer"
    /\ EventLoopFree
    /\ nCalls < MaxCalls
    /\ engineCalls' = [engineCalls EXCEPT !.commit = @ + 1]
    /\ \E w \in AllWrites(Len(tps)) :
        /\ engineWrote' = w
        /\ tps' = [i \in 1..Len(tps) |-> EngineCommit(tps[i], w[i])]
    /\ \/ lastCall' = [op |-> "commit", arg |-> <<>>, result |-> "returned", err |-> "none", engine |-> "returned"]
       \/ \E e \in EngineThrows :
            lastCall' = [op |-> "commit", arg |-> <<>>, result |-> "threw", err |-> e, engine |-> e]
    /\ nCalls' = nCalls + 1
    /\ engineLog' = <<>>
    /\ UNCHANGED <<engineSync, sendQueue, created, nDup, promises, cb, subscription, client,
                   closeState, pendingAtClose, atFatal>>

\* Variant: a close that first fails every pending promise with ClientClosed.
KafkaConsumer_close_teardownAll ==
    /\ client = "consumer"
    /\ EventLoopFree
    /\ nCalls < MaxCalls
    /\ closeState = "open"
    /\ engineCalls' = [engineCalls EXCEPT !.close = @ + 1]
    /\ \E answers \in BOOLEAN :
         closeState' = IF answers THEN "blocked" ELSE "stuck"
    /\ pendingAtClose' = pendingAtClose \cup Pending("consume")
    /\ promises' = [i \in DOMAIN promises |-> reject(promises[i], "ClientClosed")]
    /\ nCalls' = nCalls + 1
    /\ UNCHANGED <<engineSync, engineLog, sendQueue, refVars, nDup, cb, subscription, client, atFatal, lastCall>>

\* close() { this.impl.close(); }: the call enters the engine's shutdown,
\* which either is going to return or never answers.
KafkaConsumer_close ==
    /\ client = "consumer"
    /\ EventLoopFree
    /\ nCalls < MaxCalls
    /\ closeState = "open"
    /\ engineCalls' = [engineCalls EXCEPT !.close = @ + 1]
    /\ \E answers \in BOOLEAN :
         closeState' = IF answers THEN "blocked" ELSE "stuck"
    /\ pendingAtClose' = pendingAtClose \cup Pending("consume")
    /\ nCalls' = nCalls + 1
    /\ UNCHANGED <<engineSync, engineLog, sendQueue, refVars, nDup, promises, cb, subscription, client, atFatal, lastCall>>

\* Variant: a close that returns only once no promise is pending any more.
KafkaConsumer_close_return_drained ==
    /\ client = "consumer"
    /\ closeState = "blocked"
    /\ Pending("consume") = {}
    /\ closeState' = "closed"
    /\ lastCall' = [op |-> "close", arg |-> <<>>, result |-> "returned", err |-> "none", engine |-> "returned"]
    /\ UNCHANGED <<engineSync, engineLog, sendQueue, refVars, nDup, promises, cb, engineCalls, subscription, client,
                   pendingAtClose, atFatal, nCalls>>

\* impl.close() returns (or throws) and with it close().
KafkaConsumer_close_return ==
    /\ client = "consumer"
    /\ closeState = "blocked"
    /\ closeState' = "closed"
    /\ \/ lastCall' = [op |-> "close", arg |-> <<>>, result |-> "returned", err |-> "none", engine |-> "returned"]
       \/ \E e \in EngineThrows :
            lastCall' = [op |-> "close", arg |-> <<>>, result |-> "threw", err |-> e, engine |-> e]
    /\ UNCHANGED <<engineSync, engineLog, sendQueue, refVars, nDup, promises, cb, engineCalls, subscription, client,
                   pendingAtClose, atFatal, nCalls>>

\* ---------------------------------------------------------------- Producer
\* Variant: a produce that refuses a call made after close().
Producer_produce_closedCheck ==
    /\ client = "producer"
    /\ EventLoopFree
    /\ Len(promises) < MaxOps
    /\ IF closeState = "closed"
       THEN /\ promises' = Append(promises, ThrownPromise("produce", "ClientClosed"))
            /\ cb' = Append(cb, NoReport)
            /\ engineCalls' = engineCalls
            /\ sendQueue' = sendQueue
       ELSE /\ promises' = Append(promises, NewPromise("produce"))
            /\ cb' = Append(cb, [NoReport EXCEPT !.held = TRUE])
            /\ engineCalls' = [engineCalls EXCEPT !.produce = @ + 1]
            /\ sendQueue' = Append(sendQueue, Len(promises) + 1)
    /\ UNCHANGED <<engineSync, engineLog, refVars, nDup, subscription, client, closeState, pendingAtClose,
                   atFatal, nCalls, lastCall>>

\* Variant: a produce that keeps the messages in a buffer of its own and hands
\* the engine the latest one first.
Producer_produce_latestFirst ==
    /\ client = "producer"
    /\ EventLoopFree
    /\ Len(promises) < MaxOps
    /\ engineCalls' = [engineCalls EXCEPT !.produce = @ + 1]
    /\ sendQueue' = <<Len(promises) + 1>> \o sendQueue
    /\ \/ /\ ~engineSync
          /\ promises' = Append(promises, NewPromise("produce"))
          /\ cb' = Append(cb, [NoReport EXCEPT !.held = TRUE])
          /\ atFatal' = atFatal
       \/ \E e \in EngineThrows :
          /\ promises' = Append(promises, ThrownPromise("produce", e))
          /\ cb' = Append(cb, [NoReport EXCEPT !.threw = e])
          /\ atFatal' = atFatal
       \/ \E error \in Errors, value \in Values :
          /\ engineSync
          /\ promises' = ProduceCallback(Append(promises, NewPromise("produce")),
                                        Len(promises) + 1, error, value)
          /\ cb' = Append(cb, [NoReport EXCEPT !.held = TRUE, !.error = error, !.value = value])
          /\ atFatal' = IF error \in FatalErrors
                        THEN atFatal \cup Pending("produce")
                        ELSE atFatal
    /\ UNCHANGED <<engineSync, engineLog, refVars, nDup, subscription, client, closeState,
                   pendingAtClose, nCalls, lastCall>>

\* produce(topic, payload) { return new P((resolve, reject) => { this.impl.produce(..., cb) }) }:
\* the message of the call is handed to the engine inside the call itself.
Producer_produce ==
    /\ client = "producer"
    /\ EventLoopFree
    /\ Len(promises) < MaxOps
    /\ engineCalls' = [engineCalls EXCEPT !.produce = @ + 1]
    /\ sendQueue' = Append(sendQueue, Len(promises) + 1)
    /\ \/ /\ ~engineSync
          /\ promises' = Append(promises, NewPromise("produce"))
          /\ cb' = Append(cb, [NoReport EXCEPT !.held = TRUE])
          /\ atFatal' = atFatal
       \/ \E e \in EngineThrows :
          /\ promises' = Append(promises, ThrownPromise("produce", e))
          /\ cb' = Append(cb, [NoReport EXCEPT !.threw = e])
          /\ atFatal' = atFatal
       \/ \E error \in Errors, value \in Values :
          /\ engineSync
          /\ promises' = ProduceCallback(Append(promises, NewPromise("produce")),
                                        Len(promises) + 1, error, value)
          /\ cb' = Append(cb, [NoReport EXCEPT !.held = TRUE, !.error = error, !.value = value])
          /\ atFatal' = IF error \in FatalErrors
                        THEN atFatal \cup Pending("produce")
                        ELSE atFatal
    /\ UNCHANGED <<engineSync, engineLog, refVars, nDup, subscription, client, closeState,
                   pendingAtClose, nCalls, lastCall>>

\* The engine invokes the callback of produce call id with (error, offset).
produce_callback(id, error, offset) ==
    /\ EventLoopFree
    /\ id \in Ids
    /\ promises[id].kind = "produce"
    /\ cb[id].held
    /\ promises' = ProduceCallback(promises, id, error, offset)
    /\ IF cb[id].error = "none"
       THEN /\ cb' = [cb EXCEPT ![id].error = error, ![id].value = offset]
            /\ nDup' = nDup
       ELSE /\ nDup < MaxDuplicates
            /\ cb' = cb
            /\ nDup' = nDup + 1
    /\ atFatal' = IF error \in FatalErrors /\ promises[id].st = "pending"
                  THEN atFatal \cup (Pending("produce") \ {id})
                  ELSE atFatal
    /\ UNCHANGED <<engineSync, engineLog, sendQueue, refVars, engineCalls, subscription, client, closeState,
                   pendingAtClose, nCalls, lastCall>>

\* close() { return this.impl.close(); }
Producer_close ==
    /\ client = "producer"
    /\ EventLoopFree
    /\ nCalls < MaxCalls
    /\ closeState = "open"
    /\ engineCalls' = [engineCalls EXCEPT !.close = @ + 1]
    /\ \E answers \in BOOLEAN :
         closeState' = IF answers THEN "blocked" ELSE "stuck"
    /\ pendingAtClose' = pendingAtClose \cup Pending("produce")
    /\ nCalls' = nCalls + 1
    /\ UNCHANGED <<engineSync, engineLog, sendQueue, refVars, nDup, promises, cb, subscription, client, atFatal, lastCall>>

Producer_close_return ==
    /\ client = "producer"
    /\ closeState = "blocked"
    /\ closeState' = "closed"
    /\ \/ lastCall' = [op |-> "close", arg |-> <<>>, result |-> "returned", err |-> "none", engine |-> "returned"]
       \/ \E e \in EngineThrows :
            lastCall' = [op |-> "close", arg |-> <<>>, result |-> "threw", err |-> e, engine |-> e]
    /\ UNCHANGED <<engineSync, engineLog, sendQueue, refVars, nDup, promises, cb, engineCalls, subscription, client,
                   pendingAtClose, atFatal, nCalls>>

\* ---------------------------------------------------------------- TopicPartition
\* The application creates a TopicPartition for (topic, partition).
TopicPartition_create ==
    /\ client = "consumer"
    /\ EventLoopFree
    /\ Len(tps) < MaxRefs
    /\ \E topic \in TopicNames, partition \in Partitions :
        /\ tps' = Append(tps, NewTopicPartition(topic, partition))
        /\ created' = Append(created, [topic |-> topic, partition |-> partition])
    /\ UNCHANGED <<engineSync, engineWrote, engineLog, sendQueue, nDup, promises, cb, engineCalls,
                   subscription, client, closeState, pendingAtClose, atFatal, nCalls,
                   lastCall>>

\* ---------------------------------------------------------------- specification
EngineConsumeReport == \E id \in 1..MaxOps, e \in Errors, v \in Values : consume_callback(id, e, v)

EngineProduceReport == \E id \in 1..MaxOps, e \in Errors, v \in Values : produce_callback(id, e, v)

Next ==
    \/ KafkaConsumer_subscribe
    \/ KafkaConsumer_consume
    \/ EngineConsumeReport
    \/ KafkaConsumer_commit
    \/ KafkaConsumer_close
    \/ KafkaConsumer_close_return
    \/ Producer_produce
    \/ EngineProduceReport
    \/ Producer_close
    \/ Producer_close_return

Spec == Init /\ [][Next]_vars

\* A consumer that creates TopicPartition objects and commits them.
InitRef == Init /\ client = "consumer" /\ ~engineSync

NextRef == TopicPartition_create \/ KafkaConsumer_commit

RefSpec == InitRef /\ [][NextRef]_vars

\* The promise-returning calls and their callbacks alone, the callbacks invoked
\* with every pair of arguments.
EngineConsumeCallback ==
    \E id \in 1..MaxOps, e \in CallbackErrors, v \in CallbackValues : consume_callback(id, e, v)

EngineProduceCallback ==
    \E id \in 1..MaxOps, e \in CallbackErrors, v \in CallbackValues : produce_callback(id, e, v)

NextCallback ==
    \/ KafkaConsumer_consume
    \/ EngineConsumeCallback
    \/ Producer_produce
    \/ EngineProduceCallback

CallbackSpec == Init /\ [][NextCallback]_vars

\* An engine shutdown that is going to answer does answer, and close() returns
\* with it.  Nothing obliges the engine to answer any other request.
FairSpec ==
    /\ Spec
    /\ WF_vars(KafkaConsumer_close_return)
    /\ WF_vars(Producer_close_return)

\* ---------------------------------------------------------------- properties
\* Error arguments that report success.
NoErrorCodes == {"null", "undefined", "0"}

\* What the first report of the engine for call id says the outcome is.
ReportOutcome(id) ==
    IF cb[id].error \in NoErrorCodes
    THEN [st |-> "resolved", val |-> cb[id].value]
    ELSE [st |-> "rejected", val |-> cb[id].error]

Outcome(id) == [st |-> promises[id].st, val |-> promises[id].val]

Reported(id) == cb[id].error # "none"

\* This step is a consume() / produce() call.
IsNewCall(kind) ==
    /\ Len(promises') = Len(promises) + 1
    /\ promises'[Len(promises')].kind = kind

\* This step is a subscribe() / commit() call (and not a close() call, which
\* leaves lastCall to its return).
IsSyncCall(op) ==
    /\ nCalls' = nCalls + 1
    /\ closeState' = closeState
    /\ lastCall'.op = op

\* This step is the first report of the engine for call id.
IsFirstReport(id) == ~Reported(id) /\ cb'[id].error # "none"

NewPromiseIs(st, vals) ==
    /\ promises'[Len(promises')].st = st
    /\ promises'[Len(promises')].val \in vals

\* The promise of the call of this step is what the engine made of the call:
\* pending if it kept the callback, rejected with what it threw, or settled as
\* the report says that it gave inside the request.
NewPromiseIsEngines ==
    \/ NewPromiseIs("pending", {"none"})
    \/ NewPromiseIs("rejected", EngineThrows)
    \/ /\ cb'[Len(cb')].error \in NoErrorCodes
       /\ NewPromiseIs("resolved", {cb'[Len(cb')].value})
    \/ /\ cb'[Len(cb')].error \notin NoErrorCodes \cup {"none"}
       /\ NewPromiseIs("rejected", {cb'[Len(cb')].error})

\* C1 (as claimed): a consume call issued while an earlier consume is pending
\* fails at once with OperationInProgress, reaches no engine and leaves the
\* earlier call alone, so at most one consume is ever pending.
C1_Original ==
    [][(IsNewCall("consume") /\ Pending("consume") # {}) =>
         /\ NewPromiseIs("rejected", {"OperationInProgress"})
         /\ engineCalls' = engineCalls
         /\ \A i \in Ids : promises'[i] = promises[i]]_vars

\* C1 (amended): a consume call issued while an earlier consume is pending is
\* handed to the engine like any other and gets a promise of its own, pending
\* unless the engine threw; the earlier promises are untouched by the call, and
\* every consume promise the engine has reported on carries the outcome of the
\* first report for it.
C1_Amended ==
    /\ [](\A id \in Ids :
            (promises[id].kind = "consume" /\ Reported(id)) => Outcome(id) = ReportOutcome(id))
    /\ [][(IsNewCall("consume") /\ Pending("consume") # {}) =>
            /\ engineCalls'.consume = engineCalls.consume + 1
            /\ NewPromiseIsEngines
            /\ \A i \in Ids : promises'[i] = promises[i]]_vars

\* Two consume calls are pending at once, both of them with the engine.
C1_Witness ==
    /\ Cardinality(Pending("consume")) = 2
    /\ engineCalls.consume = 2
    /\ cb[1].held /\ cb[2].held

\* C2 (as claimed): once close() of a consumer has returned, every operation
\* that was pending when close() was invoked has been rejected with ClientClosed.
C2_Original ==
    (client = "consumer" /\ closeState = "closed") =>
        \A id \in pendingAtClose :
            promises[id].st = "rejected" /\ promises[id].val = "ClientClosed"

\* C2 (amended): close() of a consumer settles nothing: an operation that was
\* pending when close() was invoked stays pending during and after close() for
\* as long as the engine has not reported on it, and once the engine has, it
\* carries the engine's outcome (never a ClientClosed of the wrapper).
C2_Amended ==
    client = "consumer" =>
        \A id \in pendingAtClose :
            IF Reported(id)
            THEN Outcome(id) = ReportOutcome(id)
            ELSE promises[id].st = "pending"

\* close() of a consumer has returned and a consume that was pending when it
\* was invoked is still pending.
C2_Witness ==
    /\ client = "consumer"
    /\ closeState = "closed"
    /\ \E id \in pendingAtClose : promises[id].st = "pending"

C4_SettledOnce ==
    [][/\ \A id \in Ids : promises[id].st # "pending" => promises'[id] = promises[id]
       /\ nDup' = nDup + 1 => promises' = promises]_vars

\* A duplicate completion has been delivered: one promise is rejected, another
\* is still pending.
C4_Witness ==
    /\ nDup > 0
    /\ \E i, j \in Ids : promises[i].st = "rejected" /\ Reported(i) /\ promises[j].st = "pending"

\* C5 (as claimed): a call made after close() fails with ClientClosed, creates
\* no pending operation and reaches no engine.
C5_Original ==
    [][closeState = "closed" =>
         /\ (IsNewCall("consume") \/ IsNewCall("produce")) =>
               /\ NewPromiseIs("rejected", {"ClientClosed"})
               /\ engineCalls' = engineCalls
         /\ (IsSyncCall("subscribe") \/ IsSyncCall("commit")) =>
               /\ lastCall'.result = "threw" /\ lastCall'.err = "ClientClosed"
               /\ engineCalls' = engineCalls]_vars

\* C5 (amended): a call made after close() has returned is handed to the
\* engine like any other call: consume and produce return a promise that is
\* pending unless the engine threw, subscribe and commit return or throw what
\* the engine returns or throws; nothing fails with ClientClosed.
C5_Amended ==
    [][closeState = "closed" =>
         /\ IsNewCall("consume") =>
               /\ engineCalls'.consume = engineCalls.consume + 1
               /\ NewPromiseIsEngines
         /\ IsNewCall("produce") =>
               /\ engineCalls'.produce = engineCalls.produce + 1
               /\ NewPromiseIsEngines
         /\ IsSyncCall("subscribe") =>
               /\ engineCalls'.subscribe = engineCalls.subscribe + 1
               /\ lastCall'.err \in EngineThrows \cup {"none"}
         /\ IsSyncCall("commit") =>
               /\ engineCalls'.commit = engineCalls.commit + 1
               /\ lastCall'.err \in EngineThrows \cup {"none"}]_vars

\* close() has returned and a produce made afterwards is pending with the engine.
C5_Witness ==
    /\ client = "producer"
    /\ closeState = "closed"
    /\ \E id \in Ids \ pendingAtClose :
          promises[id].st = "pending" /\ cb[id].held /\ ~Reported(id)

\* C6: a produce promise the engine has reported on is resolved with the
\* reported offset if the report says success, and rejected with the reported
\* error if it says error.
C6_ProduceOutcome ==
    \A id \in Ids :
        (promises[id].kind = "produce" /\ Reported(id)) =>
            IF cb[id].error \in NoErrorCodes
            THEN promises[id].st = "resolved" /\ promises[id].val = cb[id].value
            ELSE promises[id].st = "rejected" /\ promises[id].val = cb[id].error

\* One produce resolved with offset 42, another rejected with queue-full.
C6_Witness ==
    \E i, j \in Ids :
        /\ promises[i].kind = "produce" /\ promises[j].kind = "produce"
        /\ cb[i].error = "null" /\ promises[i].st = "resolved" /\ promises[i].val = "42"
        /\ cb[j].error = "ERR__QUEUE_FULL" /\ promises[j].st = "rejected"

\* C7: the first delivery report for a produce call settles the promise of
\* that call and leaves the promise of every other call as it was.
C7_ReportSettlesOwnPromise ==
    [][\A id \in Ids :
         (promises[id].kind = "produce" /\ IsFirstReport(id)) =>
            /\ promises'[id].st # "pending"
            /\ \A j \in Ids \ {id} : promises'[j] = promises[j]]_vars

\* Two produce calls outstanding, the report for the later one delivered first.
C7_Witness ==
    /\ Len(promises) >= 2
    /\ promises[1].kind = "produce" /\ promises[1].st = "pending" /\ cb[1].held
    /\ promises[2].kind = "produce" /\ promises[2].st # "pending" /\ Reported(2)

\* C8 (as claimed): subscribe with an empty or duplicate-containing topic list
\* fails with InvalidArgument, reaches no engine and changes no subscription.
C8_Original ==
    [][(IsSyncCall("subscribe") /\ (lastCall'.arg = <<>> \/ HasDuplicate(lastCall'.arg))) =>
         /\ lastCall'.result = "threw" /\ lastCall'.err = "InvalidArgument"
         /\ engineCalls' = engineCalls
         /\ subscription' = subscription]_vars

\* C8 (amended): subscribe validates nothing: an empty or duplicate-containing
\* topic list is handed to the engine like any other, and the call returns or
\* throws what the engine returns or throws, never InvalidArgument of its own.
C8_Amended ==
    [][(IsSyncCall("subscribe") /\ (lastCall'.arg = <<>> \/ HasDuplicate(lastCall'.arg))) =>
         /\ engineCalls'.subscribe = engineCalls.subscribe + 1
         /\ \/ lastCall'.result = "returned"
            \/ lastCall'.result = "threw" /\ lastCall'.err \in EngineThrows]_vars

\* subscribe([]) after subscribe(["t1"]): both reached the engine and returned.
C8_Witness ==
    /\ lastCall.op = "subscribe" /\ lastCall.arg = <<>> /\ lastCall.result = "returned"
    /\ engineCalls.subscribe = 2

\* C9 (as claimed): commit before any subscribe fails with IllegalState and
\* sends no commit request to the engine.
C9_Original ==
    [][(IsSyncCall("commit") /\ engineCalls.subscribe = 0) =>
         /\ lastCall'.result = "threw" /\ lastCall'.err = "IllegalState"
         /\ engineCalls' = engineCalls]_vars

\* C9 (amended): commit checks no state: called before any subscribe it hands
\* the commit request to the engine, and fails only if the engine throws.
C9_Amended ==
    [][(IsSyncCall("commit") /\ engineCalls.subscribe = 0) =>
         /\ engineCalls'.commit = engineCalls.commit + 1
         /\ \/ lastCall'.result = "returned"
            \/ lastCall'.result = "threw" /\ lastCall'.err \in EngineThrows]_vars

\* A commit made before any subscribe reached the engine and returned.
C9_Witness ==
    /\ lastCall.op = "commit" /\ lastCall.result = "returned"
    /\ engineCalls.subscribe = 0 /\ engineCalls.commit = 1

\* C10 (as claimed): an operation that is pending when a fatal error is
\* reported on another operation ends failed; it is never resolved with a value.
C10_Original == \A id \in atFatal : promises[id].st # "resolved"

\* C10 (amended): the first report for an operation, when it carries a fatal
\* error, rejects the promise of that operation with that error and changes
\* nothing else: every other promise, the position of close() and what the
\* engine has been asked stay as they were.
C10_Amended ==
    [][\A id \in Ids :
         (IsFirstReport(id) /\ cb'[id].error \in FatalErrors) =>
            /\ promises'[id].st = "rejected" /\ promises'[id].val = cb'[id].error
            /\ \A j \in Ids \ {id} : promises'[j] = promises[j]
            /\ closeState' = closeState
            /\ engineCalls' = engineCalls]_vars

\* A consume that was pending when a fatal error was reported on another one
\* has later been resolved with a message.
C10_Witness ==
    /\ client = "consumer"
    /\ \E id \in atFatal : promises[id].st = "resolved"

\* The topics of a topic list.
TopicsOf(list) == {list[i] : i \in 1..Len(list)}

\* C11: a subscribe(T2) that returns on a consumer subscribed to T1 makes the
\* engine unsubscribe T1 first and request T2 after that, and leaves the
\* subscription at exactly T2: no topic of T1 outside T2 stays subscribed.
C11_SubscribeReplaces ==
    [][(IsSyncCall("subscribe") /\ lastCall'.result = "returned" /\ subscription # <<>>) =>
         /\ subscription' = lastCall'.arg
         /\ TopicsOf(subscription') \cap (TopicsOf(subscription) \ TopicsOf(lastCall'.arg)) = {}
         /\ Len(engineLog') = 2
         /\ engineLog'[1] = [ev |-> "unsubscribe", topics |-> subscription]
         /\ engineLog'[2] = [ev |-> "subscribe", topics |-> lastCall'.arg]]_vars

\* subscribe(["t2"]) has returned on a consumer that was subscribed to t1.
C11_Witness ==
    /\ lastCall.op = "subscribe" /\ lastCall.result = "returned"
    /\ subscription = <<"t2">>
    /\ Len(engineLog) = 2
    /\ engineLog[1] = [ev |-> "unsubscribe", topics |-> <<"t1">>]

\* C12: the engine has been handed the message of every produce call exactly
\* once, and in the order in which the calls were made.
C12_SendOrder ==
    client = "producer" =>
        /\ Len(sendQueue) = Len(promises)
        /\ \A i \in 1..Len(sendQueue) : sendQueue[i] = i

\* Two produce calls have reached the engine and the first has been reported
\* as failed: nothing was sent again.
C12_Witness ==
    /\ client = "producer"
    /\ sendQueue = <<1, 2>>
    /\ promises[1].st = "rejected" /\ Reported(1)

\* C13: every TopicPartition still has the topic and the partition it was
\* created with, whatever the engine answered to the commits it went through,
\* and one that went through the last commit shows the offset and the error
\* the engine wrote in that commit.
C13_CommitKeepsTopicPartition ==
    \A i \in 1..Len(tps) :
        /\ tps[i].topic = created[i].topic
        /\ tps[i].partition = created[i].partition
        /\ i \in 1..Len(engineWrote) =>
              /\ tps[i].offset = engineWrote[i].offset
              /\ tps[i].err = engineWrote[i].err

\* A TopicPartition created for ("orders", 3) has been through a commit in
\* which the engine set offset 7 and an error.
C13_Witness ==
    /\ lastCall.op = "commit"
    /\ Len(engineWrote) >= 1
    /\ created[1] = [topic |-> "orders", partition |-> 3]
    /\ engineWrote[1] = [offset |-> "7", err |-> "ERR__STATE"]
    /\ tps[1] = [topic |-> "orders", partition |-> 3, offset |-> "7", err |-> "ERR__STATE"]

\* C14: a completion is never lost: every call the engine has reported on is
\* settled, and a call whose callback the engine invoked inside the request
\* itself comes back settled as that report says.
C14_CompletionNeverLost ==
    /\ [](\A id \in Ids : Reported(id) => promises[id].st # "pending")
    /\ [][(Len(promises') = Len(promises) + 1 /\ cb'[Len(cb')].error # "none") =>
            IF cb'[Len(cb')].error \in NoErrorCodes
            THEN NewPromiseIs("resolved", {cb'[Len(cb')].value})
            ELSE NewPromiseIs("rejected", {cb'[Len(cb')].error})]_vars

\* A consume whose callback the engine invoked inside the request is resolved.
C14_Witness ==
    \E id \in Ids :
        /\ promises[id].kind = "consume"
        /\ engineSync /\ cb[id].error = "null" /\ nDup = 0
        /\ promises[id].st = "resolved" /\ promises[id].val = cb[id].value

\* C15: commit is fire-and-forget. A commit call hands the engine exactly one
\* commit request and nothing else, is over in the same step (it returns, or
\* throws what the engine threw, without waiting for a completion), creates no
\* operation of its own, and leaves every promise and every callback the engine
\* holds exactly as they were, an outstanding consume included.
C15_CommitFireAndForget ==
    [][IsSyncCall("commit") =>
         /\ engineCalls' = [engineCalls EXCEPT !.commit = @ + 1]
         /\ lastCall'.result \in {"returned", "threw"}
         /\ EventLoopFree'
         /\ promises' = promises
         /\ cb' = cb]_vars

\* A commit has returned while a consume is outstanding: still pending, its
\* callback still held by the engine and not yet invoked.
C15_Witness ==
    /\ lastCall.op = "commit" /\ lastCall.result = "returned"
    /\ engineCalls.commit = 1 /\ nCalls = 1
    /\ \E id \in Ids :
        /\ promises[id].kind = "consume" /\ promises[id].st = "pending"
        /\ cb[id].held /\ cb[id].error = "none"

\* The consume calls rejected with a transient error the engine reported.
TransientlyRejected ==
    {id \in Ids : /\ promises[id].kind = "consume"
                  /\ promises[id].st = "rejected"
                  /\ cb[id].error \in TransientErrors
                  /\ promises[id].val = cb[id].error}

\* C16: a transient error is non-fatal. The step in which a consume is
\* rejected with a transient engine error leaves the position of close() and
\* the subscription as they were and changes no other promise; and a consume
\* call made once some consume has been so rejected is handed to the engine
\* like any other, its promise being what the engine makes of it.
C16_TransientNonFatal ==
    [][/\ \A id \in TransientlyRejected' \ TransientlyRejected :
            /\ subscription' = subscription
            /\ closeState' = closeState
            /\ \A j \in Ids \ {id} : promises'[j] = promises[j]
       /\ (IsNewCall("consume") /\ TransientlyRejected # {}) =>
            /\ engineCalls' = [engineCalls EXCEPT !.consume = @ + 1]
            /\ NewPromiseIsEngines
            /\ \A j \in Ids : promises'[j] = promises[j]]_vars

\* With an engine that completes inside the request, a first consume was
\* rejected with a transient error while the consumer was subscribed, and a
\* second consume has since been handed to the engine and resolved.
C16_Witness ==
    /\ engineSync /\ nDup = 0 /\ subscription # <<>>
    /\ 1 \in TransientlyRejected
    /\ Len(promises) = 2 /\ engineCalls.consume = 2
    /\ promises[2].st = "resolved"

\* C17: in the callback of consume and of produce the error argument alone
\* decides. A call whose callback was first invoked with null, undefined or 0
\* as error is resolved with the value given, be it undefined; one whose
\* callback was first invoked with anything else as error is rejected with that
\* error, whatever value came with it.
C17_ErrorArgumentDecides ==
    \A id \in Ids :
        /\ cb[id].error \in {"null", "undefined", "0"} =>
              promises[id].st = "resolved" /\ promises[id].val = cb[id].value
        /\ cb[id].error \notin {"null", "undefined", "0", "none"} =>
              promises[id].st = "rejected" /\ promises[id].val = cb[id].error

\* One call was reported with error 0 and no value and is resolved with
\* undefined; another was reported with an error code next to a value and is
\* rejected with the error code.
C17_Witness ==
    \E id, other \in Ids :
        /\ cb[id].error = "0" /\ cb[id].value = "undefined"
        /\ promises[id].st = "resolved" /\ promises[id].val = "undefined"
        /\ cb[other].error = "ERR__QUEUE_FULL" /\ cb[other].value = "42"
        /\ promises[other].st = "rejected" /\ promises[other].val = "ERR__QUEUE_FULL"

\* C18: what the engine throws synchronously surfaces per operation. A
\* consume or produce whose engine request threw has returned a promise, and
\* that promise is rejected with the thrown error, not pending; the call threw
\* nothing to its caller.  A subscribe, commit or close whose engine request
\* threw has thrown that same error to its caller, and has created no promise
\* that could stay pending.
C18_EngineThrowSurfaces ==
    /\ [](\A id \in Ids :
            cb[id].threw # "none" =>
                promises[id].st = "rejected" /\ promises[id].val = cb[id].threw)
    /\ [](lastCall.engine \in EngineThrows =>
            /\ lastCall.op \in {"subscribe", "commit", "close"}
            /\ lastCall.result = "threw" /\ lastCall.err = lastCall.engine)
    /\ [][/\ (IsNewCall("consume") \/ IsNewCall("produce")) => lastCall' = lastCall
          /\ (lastCall' # lastCall /\ lastCall'.engine \in EngineThrows) => promises' = promises]_vars

\* The engine threw inside a consume, whose promise is rejected with what it
\* threw, and inside a commit, which threw the same to its caller.
C18_Witness ==
    /\ lastCall.op = "commit" /\ lastCall.engine \in EngineThrows
    /\ lastCall.result = "threw" /\ lastCall.err = lastCall.engine
    /\ \E id \in Ids :
        /\ promises[id].kind = "consume" /\ cb[id].threw \in EngineThrows
        /\ promises[id].st = "rejected" /\ promises[id].val = cb[id].threw

====
